---- MODULE Spec2Model ----
(***************************************************************************)
(* The spell-checker widget of src/spellchecker.js (cookie-authenticated   *)
(* variant, called "full" below) and of src/unnamed/part_001 (the earlier  *)
(* variant without escaping and without a response normalizer, "basic"),   *)
(* as a state machine: the overlay registry state.activeInputs, the        *)
(* overlays attached to document.body, the shared debounce timer, and the  *)
(* check cycles in flight.  parseApiResponse and highlightMistakes are     *)
(* operators, also exercised on their own by SpecNorm and SpecRender.      *)
(***************************************************************************)
EXTENDS Integers, Sequences, FiniteSets, TLC

VARIABLES
  variant,       \* which script is loaded: "full" or "basic"
  value,         \* element -> its current text (inputElement.value)
  activeInputs,  \* state.activeInputs: element -> entry
  marks,         \* contenteditable element -> the highlight spans inside it
  body,          \* overlay nodes attached to document.body: id -> node
  timeout,       \* the one pending debounce timer of handleInputChange
  requests,      \* check cycles suspended at an await
  issued,        \* number of check cycles that went on to a request so far
  arrived,       \* element -> the responses that were parsed, in order of arrival
  unchecked,     \* elements edited since the last check cycle started for them
  lastStep,      \* what the last step did (observation only)
  callArgs,      \* arguments of a direct call of a function
  callResult,    \* its result
  scroll,        \* window.scrollX and window.scrollY
  dataset,       \* element -> the generated id in its data-spellcheck-id
  popup,         \* window.currentCorrectionPopup and what its buttons do
  config,        \* the config object
  selection,     \* element -> the place of its caret (a collapsed selection)
  calledIn,      \* the state the last direct call was made in (observation only)
  doc            \* the document: popup nodes, outside-click listener, its timers

vars == <<variant, value, marks, activeInputs, body, timeout, requests, issued,
          arrived, unchecked, lastStep, callArgs, callResult, scroll, dataset,
          popup, config, selection, calledIn, doc>>

(***************************************************************************)
(* JavaScript values: numbers, strings, arrays, undefined and NaN.         *)
(***************************************************************************)
Undefined == [t |-> "undefined", n |-> 0, s |-> "", a |-> <<>>]
NaN == [t |-> "NaN", n |-> 0, s |-> "", a |-> <<>>]
Num(k) == [t |-> "number", n |-> k, s |-> "", a |-> <<>>]
Str(x) == [t |-> "string", n |-> 0, s |-> x, a |-> <<>>]
Arr(xs) == [t |-> "array", n |-> 0, s |-> "", a |-> xs]

IsNum(v) == v.t = "number"

\* ToBoolean
Truthy(v) ==
  CASE v.t = "number" -> v.n # 0
    [] v.t = "string" -> v.s # ""
    [] v.t = "array" -> TRUE
    [] OTHER -> FALSE

\* a || b
JsOr(a, b) == IF Truthy(a) THEN a ELSE b

\* a + b and a - b on numbers and undefined (undefined converts to NaN)
JsAdd(a, b) == IF IsNum(a) /\ IsNum(b) THEN Num(a.n + b.n) ELSE NaN
JsSub(a, b) == IF IsNum(a) /\ IsNum(b) THEN Num(a.n - b.n) ELSE NaN

(***************************************************************************)
(* parseApiResponse (src/spellchecker.js 430-480).                         *)
(* A payload is [isNull, text |-> [present, spelling_issues, grammar_issues],*)
(* mistakes]; a list is [isArray, items]; an entry of a list may be null.  *)
(***************************************************************************)
NotAnArray == [isArray |-> FALSE, items |-> <<>>]
ArrayOf(xs) == [isArray |-> TRUE, items |-> xs]

\* mistakes.push({...}) of the two nested branches
IssueToMistake(issue, type) ==
  [startIndex |-> issue.location.offset,
   endIndex |-> JsAdd(issue.location.offset, issue.location.length),
   message |-> issue.message,
   suggestions |-> JsOr(issue.suggestions, Arr(<<>>)),
   type |-> Str(type),
   code |-> issue.code]

\* a push that copies the entry with the type it has
EntryToMistakeKeepType(m) ==
  [startIndex |-> m.startIndex,
   endIndex |-> m.endIndex,
   message |-> m.message,
   suggestions |-> m.suggestions,
   type |-> m.type,
   code |-> m.code]

\* mistakes.push({...mistake, type: mistake.type || 'spelling'})
EntryToMistake(m) ==
  [startIndex |-> m.startIndex,
   endIndex |-> m.endIndex,
   message |-> m.message,
   suggestions |-> m.suggestions,
   type |-> JsOr(m.type, Str("spelling")),
   code |-> m.code]

\* if (issue.location)
IssueKept(issue) == issue.location.present

\* if (mistake.startIndex !== undefined && mistake.endIndex !== undefined)
EntryKept(m) == m.startIndex # Undefined /\ m.endIndex # Undefined

IssuesToMistakes(items, type) ==
  LET kept == SelectSeq(items, IssueKept)
  IN [k \in 1..Len(kept) |-> IssueToMistake(kept[k], type)]

EntriesToMistakes(items) ==
  LET kept == SelectSeq(items, EntryKept)
  IN [k \in 1..Len(kept) |-> EntryToMistake(kept[k])]

\* reading a property of a null entry throws a TypeError out of forEach
HasNullEntry(list) ==
  list.isArray /\ \E i \in 1..Len(list.items) : list.items[i].isNull

\* the order in which the three branches push
ConcatBranchesGrammarFirst(sp, gr, fl) == gr \o sp \o fl
ConcatBranches(sp, gr, fl) == sp \o gr \o fl

parseApiResponse(data) ==
  LET hasText == ~data.isNull /\ data.text.present
      hasSp == hasText /\ data.text.spelling_issues.isArray
      hasGr == hasText /\ data.text.grammar_issues.isArray
      hasFl == ~data.isNull /\ data.mistakes.isArray
      threw == \/ hasSp /\ HasNullEntry(data.text.spelling_issues)
               \/ hasGr /\ HasNullEntry(data.text.grammar_issues)
               \/ hasFl /\ HasNullEntry(data.mistakes)
      sp == IF hasSp
            THEN IssuesToMistakes(data.text.spelling_issues.items, "spelling")
            ELSE <<>>
      gr == IF hasGr
            THEN IssuesToMistakes(data.text.grammar_issues.items, "grammar")
            ELSE <<>>
      fl == IF hasFl THEN EntriesToMistakes(data.mistakes.items) ELSE <<>>
  IN IF threw
     THEN [threw |-> TRUE, mistakes |-> <<>>]
     ELSE [threw |-> FALSE, mistakes |-> ConcatBranches(sp, gr, fl)]

(***************************************************************************)
(* Strings are sequences of one-character strings.                         *)
(***************************************************************************)
Min(a, b) == IF a < b THEN a ELSE b
Max(a, b) == IF a > b THEN a ELSE b

\* ToIntegerOrInfinity of an argument of substring: NaN and undefined give 0
ToInteger(v) == IF IsNum(v) THEN v.n ELSE 0

\* String.prototype.substring(start, end): an undefined end is the length,
\* both ends are clamped to [0, length] and swapped when start > end
substring(str, start, end) ==
  LET len == Len(str)
      intStart == ToInteger(start)
      intEnd == IF end = Undefined THEN len ELSE ToInteger(end)
      finalStart == Min(Max(intStart, 0), len)
      finalEnd == Min(Max(intEnd, 0), len)
      from == Min(finalStart, finalEnd)
      to == Max(finalStart, finalEnd)
  IN SubSeq(str, from + 1, to)

\* str.replace(/c/g, to) for a one-character pattern c
RECURSIVE ReplaceAll(_, _, _)
ReplaceAll(str, c, to) ==
  IF str = <<>> THEN <<>>
  ELSE (IF Head(str) = c THEN to ELSE <<Head(str)>>)
         \o ReplaceAll(Tail(str), c, to)

\* text.trim() === '' (the only white space of the alphabet is the space)
IsBlank(str) == \A i \in 1..Len(str) : str[i] = " "

AmpRef == <<"&", "a", "m", "p", ";">>
LtRef == <<"&", "l", "t", ";">>
GtRef == <<"&", "g", "t", ";">>
QuotRef == <<"&", "q", "u", "o", "t", ";">>
AposRef == <<"&", "#", "0", "3", "9", ";">>
NbspRef == <<"&", "n", "b", "s", "p", ";">>

\* U+00A0, the character &nbsp; stands for
NBSP == "U+00A0"

\* escapeHtml (src/spellchecker.js 717-727): six replacements, & first
escapeHtml(text) ==
  ReplaceAll(
    ReplaceAll(
      ReplaceAll(
        ReplaceAll(
          ReplaceAll(ReplaceAll(text, "&", AmpRef), "<", LtRef),
          ">", GtRef),
        "\"", QuotRef),
      "'", AposRef),
    " ", NbspRef)

(***************************************************************************)
(* The html string built by highlightMistakes: characters, with each       *)
(* <span ...> and </span> of the template as one token; attrs lists the    *)
(* attributes of the <span ...> tokens in the order they occur.            *)
(***************************************************************************)
SpanOpen == "<span ...>"
SpanClose == "</span>"

\* the comparators of mistakes.sort: (a, b) => a.startIndex - b.startIndex
\* (dir 1; src/spellchecker.js 629) and (a, b) => b.startIndex - a.startIndex
\* (dir -1; src/spellchecker.js 748); a NaN result counts as 0
CompareStart(a, b, dir) ==
  LET d == JsSub(a.startIndex, b.startIndex) IN IF IsNum(d) THEN dir * d.n ELSE 0

\* Array.prototype.sort is stable
RECURSIVE InsertByStart(_, _, _)
InsertByStart(sorted, m, dir) ==
  IF sorted = <<>> THEN <<m>>
  ELSE IF CompareStart(sorted[Len(sorted)], m, dir) > 0
       THEN Append(InsertByStart(SubSeq(sorted, 1, Len(sorted) - 1), m, dir),
                   sorted[Len(sorted)])
       ELSE Append(sorted, m)

RECURSIVE SortFrom(_, _, _, _)
SortFrom(ms, i, acc, dir) ==
  IF i > Len(ms) THEN acc
  ELSE SortFrom(ms, i + 1, InsertByStart(acc, ms[i], dir), dir)

\* a sort that puts a mistake before the sorted ones that start where it does
RECURSIVE InsertBeforeTies(_, _)
InsertBeforeTies(sorted, m) ==
  IF sorted = <<>> THEN <<m>>
  ELSE IF CompareStart(sorted[Len(sorted)], m, 1) >= 0
       THEN Append(InsertBeforeTies(SubSeq(sorted, 1, Len(sorted) - 1), m),
                   sorted[Len(sorted)])
       ELSE Append(sorted, m)

RECURSIVE SortTiesReversedFrom(_, _, _)
SortTiesReversedFrom(ms, i, acc) ==
  IF i > Len(ms) THEN acc
  ELSE SortTiesReversedFrom(ms, i + 1, InsertBeforeTies(acc, ms[i]))

SortByStartTiesReversed(ms) == SortTiesReversedFrom(ms, 1, <<>>)

SortByStart(ms) == SortFrom(ms, 1, <<>>, 1)
SortByStartDesc(ms) == SortFrom(ms, 1, <<>>, -1)

\* the text of one piece of the html: escaped in the full variant
\* (src/spellchecker.js 633, 651, 658), raw in the basic one
\* (src/unnamed/part_001 175, 179, 186)
Piece(v, str) == IF v = "full" THEN escapeHtml(str) ELSE str

\* the data-* attributes of a marker (src/spellchecker.js 639-649); the
\* markers of the basic variant carry none (src/unnamed/part_001 178)
\* the id attribute of the elements of the page: the input has one, the
\* textarea and the contenteditable have none
HtmlId(el) == IF el = "e1" THEN "e1" ELSE ""

NoInputId == [el |-> "", gen |-> 0]
NoAttrs ==
  [type |-> Undefined, start |-> Undefined, end |-> Undefined,
   inputId |-> NoInputId, message |-> Str(""), suggestions |-> <<>>]

\* Array.prototype.join(',') of a list of strings
RECURSIVE Join(_)
Join(list) ==
  IF list = <<>> THEN <<>>
  ELSE IF Len(list) = 1 THEN list[1]
  ELSE list[1] \o <<",">> \o Join(Tail(list))

\* the value the HTML parser gives an attribute written name="chars": the
\* characters up to the first double quote
AttributeValue(chars) ==
  IF \E i \in 1..Len(chars) : chars[i] = "\""
  THEN SubSeq(chars, 1,
              (CHOOSE i \in 1..Len(chars) :
                 chars[i] = "\"" /\ \A j \in 1..(i - 1) : chars[j] # "\"") - 1)
  ELSE chars

\* inputElement.id || generateInputId(inputElement), evaluated for the k-th
\* marker of a render (src/spellchecker.js 4-8, 649).  Math.random gives a
\* new id at every call; the one made for the k-th marker of the render of
\* el is named by el and k.
InputIdOf(el, id, k) ==
  IF id # "" THEN [el |-> el, gen |-> 0] ELSE [el |-> el, gen |-> k]

MarkerAttrs(v, m, el, k) ==
  IF v = "full"
  THEN [type |-> m.type, start |-> m.startIndex, end |-> m.endIndex,
        inputId |-> InputIdOf(el, HtmlId(el), k),
        message |-> JsOr(m.message, Str("")),
        suggestions |-> AttributeValue(Join(JsOr(m.suggestions, Arr(<<>>)).a))]
  ELSE NoAttrs

\* the for loop of highlightMistakes and the remaining text after it
\* (src/spellchecker.js 631-658, src/unnamed/part_001 173-186)
RECURSIVE BuildHtml(_, _, _, _, _, _)
BuildHtml(v, el, text, mistakes, i, lastIndex) ==
  IF i > Len(mistakes)
  THEN [chars |-> Piece(v, substring(text, lastIndex, Undefined)),
        attrs |-> <<>>]
  ELSE LET m == mistakes[i]
           rest == BuildHtml(v, el, text, mistakes, i + 1, m.endIndex)
       IN [chars |-> Piece(v, substring(text, lastIndex, m.startIndex))
                       \o <<SpanOpen>>
                       \o Piece(v, substring(text, m.startIndex, m.endIndex))
                       \o <<SpanClose>>
                       \o rest.chars,
           attrs |-> <<MarkerAttrs(v, m, el, i)>> \o rest.attrs]

(***************************************************************************)
(* textContainer.innerHTML = html: the HTML parser, on the characters the  *)
(* alphabet of the model can produce.  In the data state a character       *)
(* reference is decoded, "<" followed by a letter opens a tag, whose name  *)
(* and attributes run to the next ">" (that of a <span ...> or </span>     *)
(* token included; at the end of the input the unfinished tag is dropped), *)
(* and </span> closes the innermost open span.  The result is the text    *)
(* content and, per span element, its attributes and the part [from, to)   *)
(* of the text content it holds.                                           *)
(***************************************************************************)
CharRefs ==
  {<<AmpRef, "&">>, <<LtRef, "<">>, <<GtRef, ">">>, <<QuotRef, "\"">>,
   <<AposRef, "'">>, <<NbspRef, NBSP>>}

AsciiLetters ==
  {"a", "b", "c", "d", "e", "f", "g", "h", "i", "j", "k", "l", "m", "n",
   "o", "p", "q", "r", "s", "t", "u", "v", "w", "x", "y", "z"}

RefsAt(chars, i) ==
  {r \in CharRefs : /\ i + Len(r[1]) - 1 <= Len(chars)
                    /\ SubSeq(chars, i, i + Len(r[1]) - 1) = r[1]}

OpenSpans(sp) == {j \in 1..Len(sp) : sp[j].to = -1}

CloseInnermost(sp, at) ==
  IF OpenSpans(sp) = {} THEN sp
  ELSE LET j == CHOOSE x \in OpenSpans(sp) : \A y \in OpenSpans(sp) : y <= x
       IN [sp EXCEPT ![j].to = at]

RECURSIVE ParseFrom(_, _, _)
ParseFrom(chars, attrs, st) ==
  IF st.i > Len(chars)
  THEN [text |-> st.out,
        spans |-> [j \in 1..Len(st.sp) |->
                     IF st.sp[j].to = -1
                     THEN [st.sp[j] EXCEPT !.to = Len(st.out)]
                     ELSE st.sp[j]]]
  ELSE
    LET c == chars[st.i] IN
    IF st.mode = "tag"
    THEN IF c = SpanOpen
         THEN ParseFrom(chars, attrs,
                [st EXCEPT !.i = @ + 1, !.mode = "data", !.k = @ + 1])
         ELSE IF c = ">" \/ c = SpanClose
         THEN ParseFrom(chars, attrs, [st EXCEPT !.i = @ + 1, !.mode = "data"])
         ELSE ParseFrom(chars, attrs, [st EXCEPT !.i = @ + 1])
    ELSE IF c = SpanOpen
    THEN ParseFrom(chars, attrs,
           [st EXCEPT !.i = @ + 1, !.k = @ + 1,
                      !.sp = Append(@, [attrs |-> attrs[st.k + 1],
                                        from |-> Len(st.out), to |-> -1])])
    ELSE IF c = SpanClose
    THEN ParseFrom(chars, attrs,
           [st EXCEPT !.i = @ + 1, !.sp = CloseInnermost(@, Len(st.out))])
    ELSE IF c = "&" /\ RefsAt(chars, st.i) # {}
    THEN LET r == CHOOSE x \in RefsAt(chars, st.i) : TRUE
         IN ParseFrom(chars, attrs,
              [st EXCEPT !.i = @ + Len(r[1]), !.out = Append(@, r[2])])
    ELSE IF /\ c = "<"
            /\ st.i < Len(chars)
            /\ chars[st.i + 1] \in AsciiLetters
    THEN ParseFrom(chars, attrs, [st EXCEPT !.i = @ + 2, !.mode = "tag"])
    ELSE ParseFrom(chars, attrs, [st EXCEPT !.i = @ + 1, !.out = Append(@, c)])

ParseHtml(html) ==
  ParseFrom(html.chars, html.attrs,
            [i |-> 1, mode |-> "data", out |-> <<>>, sp |-> <<>>, k |-> 0])

(***************************************************************************)
(* The overlay registry and the document.                                  *)
(***************************************************************************)
\* an input, a textarea and a contenteditable element
El == {"e1", "e2", "ce"}
IsContentEditable(el) == el = "ce"

\* Map.get gives undefined for NoEntry; EmptyEntry is {}
NoRect == [present |-> FALSE, left |-> 0, top |-> 0]
NoEntry == [has |-> FALSE, overlay |-> 0, mistakes |-> <<>>, inputRect |-> NoRect]
EmptyEntry == [has |-> TRUE, overlay |-> 0, mistakes |-> <<>>, inputRect |-> NoRect]

\* where the elements lie in the document, and getBoundingClientRect:
\* the place in the viewport
DocLeft(el) == IF el = "ce" THEN 1 ELSE 0
DocTop(el) == IF el = "e1" THEN 0 ELSE 1
getBoundingClientRect(el, sc) ==
  [present |-> TRUE, left |-> DocLeft(el) - sc.x, top |-> DocTop(el) - sc.y]
NoScroll == [x |-> 0, y |-> 0]

RemoveNode(bd, id) == [i \in DOMAIN bd \ {id} |-> bd[i]]

\* document.createElement: a node not in the document yet
FreshId(bd) ==
  CHOOSE i \in 1..(Cardinality(DOMAIN bd) + 1) :
    i \notin DOMAIN bd /\ \A j \in 1..(i - 1) : j \in DOMAIN bd

\* The operations below take and return the part D of the state they touch:
\* [activeInputs, body, value, marks, dataset], and scroll, which they read.

\* a clearHighlights that forgets the overlay without removing it
clearHighlightsEntryOnly(D, el) == [D EXCEPT !.activeInputs[el] = EmptyEntry]

\* clearHighlights (src/spellchecker.js 776-785, src/unnamed/part_001 211-217)
clearHighlights(D, el) ==
  [D EXCEPT !.activeInputs[el] = EmptyEntry,
            !.body = IF D.activeInputs[el].has /\ D.activeInputs[el].overlay # 0
                     THEN RemoveNode(@, D.activeInputs[el].overlay)
                     ELSE @]

\* element.innerHTML read back: the text of a text node with & < > and
\* U+00A0 escaped
SerializeText(text) ==
  ReplaceAll(
    ReplaceAll(
      ReplaceAll(ReplaceAll(text, "&", AmpRef), NBSP, NbspRef),
      "<", LtRef),
    ">", GtRef)

\* if (mistake.startIndex >= 0 && mistake.endIndex <= textContent.length)
PassesRangeTest(m, len) ==
  /\ IsNum(m.startIndex) /\ m.startIndex.n >= 0
  /\ IsNum(m.endIndex) /\ m.endIndex.n <= len

\* the place of the first occurrence of pattern in chars, 0 if there is none
IndexOf(chars, pattern) ==
  LET at == {i \in 1..(Len(chars) - Len(pattern) + 1) :
               SubSeq(chars, i, i + Len(pattern) - 1) = pattern}
  IN IF at = {} THEN 0 ELSE CHOOSE i \in at : \A j \in at : i <= j

\* html = html.replace(mistakeText, `<span ...>${mistakeText}</span>`):
\* the first occurrence only (src/spellchecker.js 760-765)
WrapFirst(html, mistakeText, m) ==
  LET i == IndexOf(html.chars, mistakeText) IN
  IF i = 0 THEN html
  ELSE LET before == SubSeq(html.chars, 1, i - 1)
           after == SubSeq(html.chars, i + Len(mistakeText), Len(html.chars))
           k == Len(SelectSeq(before, LAMBDA c : c = SpanOpen))
       IN [chars |-> before \o <<SpanOpen>> \o mistakeText \o <<SpanClose>>
                       \o after,
           attrs |-> SubSeq(html.attrs, 1, k)
                       \o <<[NoAttrs EXCEPT !.type = m.type]>>
                       \o SubSeq(html.attrs, k + 1, Len(html.attrs))]

\* the for loop of highlightContentEditableMistakes (src/spellchecker.js 751-767)
RECURSIVE WrapAll(_, _, _, _)
WrapAll(html, textContent, mistakes, i) ==
  IF i > Len(mistakes) THEN html
  ELSE LET m == mistakes[i] IN
       IF PassesRangeTest(m, Len(textContent))
       THEN WrapAll(WrapFirst(html,
                              substring(textContent, m.startIndex, m.endIndex),
                              m),
                    textContent, mistakes, i + 1)
       ELSE WrapAll(html, textContent, mistakes, i + 1)

\* highlightContentEditableMistakes (src/spellchecker.js 732-771); in the
\* basic variant it only logs (src/unnamed/part_001 202-206)
highlightContentEditableMistakes(v, D, el, mistakes) ==
  IF v = "basic" THEN D
  ELSE IF Len(mistakes) = 0 THEN [D EXCEPT !.marks[el] = <<>>]
  ELSE LET textContent == D.value[el]
           html == WrapAll([chars |-> SerializeText(textContent), attrs |-> <<>>],
                           textContent, SortByStartDesc(mistakes), 1)
           parsed == ParseHtml(html)
       IN [D EXCEPT !.value[el] = parsed.text, !.marks[el] = parsed.spans]

\* overlay.style.left and top: the place in the viewport of an overlay with
\* position fixed (src/spellchecker.js 585-587, 701-702), the place in the
\* document of one with position absolute (src/unnamed/part_001 150-152,
\* 262-263)
OverlayLeft(v, inputRect, sc) ==
  IF v = "full" THEN inputRect.left ELSE inputRect.left + sc.x
OverlayTop(v, inputRect, sc) ==
  IF v = "full" THEN inputRect.top ELSE inputRect.top + sc.y

\* a renderer that returns on an empty list before it clears
highlightInputMistakesKeepOnEmpty(v, D, el, mistakes) ==
  IF Len(mistakes) = 0 THEN D
  ELSE LET cleared == clearHighlights(D, el)
           sorted == SortByStart(mistakes)
           parsed == ParseHtml(BuildHtml(v, el, D.value[el], sorted, 1, Num(0)))
           id == FreshId(cleared.body)
       IN [cleared EXCEPT
             !.activeInputs[el] =
                [has |-> TRUE, overlay |-> id, mistakes |-> sorted,
                 inputRect |-> NoRect],
             !.body = @ @@ (id :> [text |-> parsed.text, spans |-> parsed.spans,
                                   left |-> 0, top |-> 0])]

\* the overlay of an input or a textarea
\* (src/spellchecker.js 568-689, src/unnamed/part_001 141-197)
highlightInputMistakes(v, D, el, mistakes) ==
  LET cleared == clearHighlights(D, el) IN
  IF Len(mistakes) = 0 THEN cleared
  ELSE LET sorted == SortByStart(mistakes)
           inputRect == getBoundingClientRect(el, D.scroll)
           parsed == ParseHtml(BuildHtml(v, el, D.value[el], sorted, 1, Num(0)))
           overlay == [text |-> parsed.text, spans |-> parsed.spans,
                       left |-> OverlayLeft(v, inputRect, D.scroll),
                       top |-> OverlayTop(v, inputRect, D.scroll)]
           id == FreshId(cleared.body)
       IN [cleared EXCEPT
             !.activeInputs[el] =
                [has |-> TRUE, overlay |-> id, mistakes |-> sorted,
                 inputRect |-> IF v = "full" THEN inputRect ELSE NoRect],
             !.body = @ @@ (id :> overlay),
             !.dataset[el] = IF v = "full" /\ HtmlId(el) = ""
                             THEN Len(sorted) ELSE @]

\* highlightMistakes (src/spellchecker.js 561-689, src/unnamed/part_001 134-197)
highlightMistakes(v, D, el, mistakes) ==
  IF IsContentEditable(el)
  THEN highlightContentEditableMistakes(v, D, el, mistakes)
  ELSE highlightInputMistakes(v, D, el, mistakes)

\* the part of the state the operations above touch
Dom == [activeInputs |-> activeInputs, body |-> body, value |-> value,
        marks |-> marks, dataset |-> dataset, scroll |-> scroll]

SetDom(D) ==
  /\ activeInputs' = D.activeInputs
  /\ body' = D.body
  /\ value' = D.value
  /\ marks' = D.marks
  /\ dataset' = D.dataset

(***************************************************************************)
(* The widget right after the script has run init().                       *)
(***************************************************************************)
NoTimer == [set |-> FALSE, target |-> "e1", wait |-> 0]
NoCall ==
  [fn |-> "none", el |-> "e1", text |-> <<>>, data |-> <<>>, mistakes |-> <<>>]
NoResult == [done |-> FALSE, threw |-> FALSE, mistakes |-> <<>>]
Idle == [kind |-> "other", el |-> "e1"]
NoPopup ==
  [open |-> FALSE, owner |-> "e1", marker |-> 0, found |-> FALSE,
   inputElement |-> "e1", mistakeType |-> Undefined, mistakeMessage |-> Str(""),
   suggestions |-> <<>>, startIndex |-> NaN, endIndex |-> NaN,
   replaced |-> FALSE]
NoBefore == [none |-> TRUE]
\* the document without popup: no popup node under document.body,
\* handleOutsideClick not registered, no registration timer pending.
\* hostConfig: createCorrectionPopup and handleOutsideClick are declared
\* outside the function that declares config (src/spellchecker.js 82, 283;
\* config is declared at 296 inside the function that starts at 294), so
\* their `config` is the one of the page's global scope, if it has one
NoDoc == [hostConfig |-> FALSE, popups |-> 0, listener |-> FALSE, timers |-> 0]
NoDataset == [el \in El |-> 0]
\* const config = {...} (src/spellchecker.js 296-357, src/unnamed/part_001
\* 8-51): the keys a deployment patches, the nested groups with the
\* sub-keys that are plain values
DefaultConfig(v) ==
  IF v = "full"
  THEN [apiEndpoint |-> "http://localhost:8787/api/v1/audit",
        debounceMs |-> 500,
        auth |-> [useCookies |-> TRUE, withCredentials |-> TRUE],
        cssPrefix |-> "spellcheck-",
        cssOverrides |->
          [spellingMistakeStyle |-> "text-decoration: underline wavy red;",
           grammarMistakeStyle |-> "text-decoration: underline wavy blue;"],
        debug |-> FALSE]
  ELSE [apiEndpoint |-> "https://your-api.example.com/spell-check",
        debounceMs |-> 500,
        cssPrefix |-> "spellcheck-"]

ScriptInit(v) ==
  /\ variant = v
  /\ value = [el \in El |-> <<>>]
  /\ marks = [el \in El |-> <<>>]
  /\ activeInputs = [el \in El |-> IF el = "e1" THEN EmptyEntry ELSE NoEntry]
  /\ body = <<>>
  /\ timeout = NoTimer
  /\ requests = {}
  /\ issued = 0
  /\ arrived = [el \in El |-> <<>>]
  /\ unchecked = {}
  /\ lastStep = Idle
  /\ scroll = NoScroll
  /\ dataset = NoDataset
  /\ popup = NoPopup
  /\ config = DefaultConfig(v)
  /\ selection = [el \in El |-> 0]
  /\ calledIn = NoBefore

\* on a page without a global config
WidgetInit(v) == ScriptInit(v) /\ doc = NoDoc

widgetVars == <<variant, value, marks, activeInputs, body, timeout, requests, issued,
                arrived, unchecked, lastStep, scroll, dataset, popup, config,
                selection, calledIn, doc>>

(***************************************************************************)
(* SpecNorm: parseApiResponse called on a payload.                         *)
(***************************************************************************)
MaxIssues == 2

\* the text the payload is about
NormText == <<"a", "a">>

Offsets == {Undefined} \cup {Num(k) : k \in -1..(Len(NormText) - 1)}
Lengths == {Undefined} \cup {Num(k) : k \in -1..Len(NormText)}
Ends == {Undefined} \cup {Num(k) : k \in 0..(Len(NormText) + 1)}

NullIssue ==
  [isNull |-> TRUE,
   location |-> [present |-> FALSE, offset |-> Undefined, length |-> Undefined],
   message |-> Undefined, suggestions |-> Undefined, code |-> Undefined]

Issue(present, offset, length) ==
  [isNull |-> FALSE,
   location |-> [present |-> present, offset |-> offset, length |-> length],
   message |-> Str("m"), suggestions |-> Undefined, code |-> Undefined]

NestedIssues ==
  {NullIssue, Issue(FALSE, Undefined, Undefined)}
    \cup {Issue(TRUE, o, l) : o \in Offsets, l \in Lengths}

NullEntry ==
  [isNull |-> TRUE, startIndex |-> Undefined, endIndex |-> Undefined,
   type |-> Undefined, message |-> Undefined, suggestions |-> Undefined,
   code |-> Undefined]

Entry(start, end, type) ==
  [isNull |-> FALSE, startIndex |-> start, endIndex |-> end, type |-> type,
   message |-> Str("m"), suggestions |-> Arr(<<>>), code |-> Undefined]

\* an entry with a message, suggestions and a code of its own
FullEntry(type) ==
  [Entry(Num(0), Num(1), type) EXCEPT
     !.message = Undefined, !.suggestions = Arr(<<<<"b">>>>), !.code = Str("c")]

FlatEntries ==
  {NullEntry}
    \cup {Entry(s, e, ty) : s \in Offsets, e \in Ends,
                            ty \in {Undefined, Str("grammar")}}
    \cup {Entry(Num(0), Num(1), ty) : ty \in {Str(""), Num(0)}}
    \cup {FullEntry(ty) : ty \in {Undefined, Str("style")}}

ListsOf(S, n) ==
  IF n = 0 THEN {NotAnArray, ArrayOf(<<>>)}
  ELSE {ArrayOf(xs) : xs \in [1..n -> S]}

Payload(sp, gr, fl) ==
  [isNull |-> FALSE,
   text |-> [present |-> sp.isArray \/ gr.isArray,
             spelling_issues |-> sp, grammar_issues |-> gr],
   mistakes |-> fl]

NullPayload == [Payload(NotAnArray, NotAnArray, NotAnArray) EXCEPT !.isNull = TRUE]

Sizes ==
  {z \in (0..MaxIssues) \X (0..MaxIssues) \X (0..MaxIssues) :
     z[1] + z[2] + z[3] <= MaxIssues}

NormArgs(d) ==
  [NoCall EXCEPT !.fn = "parseApiResponse", !.text = NormText, !.data = d]

InitNorm ==
  /\ WidgetInit("full")
  /\ \/ callArgs = NormArgs(NullPayload)
     \/ \E z \in Sizes :
          \E sp \in ListsOf(NestedIssues, z[1]),
             gr \in ListsOf(NestedIssues, z[2]),
             fl \in ListsOf(FlatEntries, z[3]) :
            callArgs = NormArgs(Payload(sp, gr, fl))
  /\ callResult = NoResult

\* a normalizer that defaults the type in the entries of the payload itself
\* and pushes them: mistake.type = mistake.type || 'spelling'
DefaultedInPlace(data) ==
  IF data.isNull \/ ~data.mistakes.isArray THEN data
  ELSE [data EXCEPT !.mistakes.items =
          [k \in 1..Len(@) |->
             IF EntryKept(@[k]) /\ ~@[k].isNull
             THEN [@[k] EXCEPT !.type = JsOr(@, Str("spelling"))]
             ELSE @[k]]]

CallParseApiResponseInPlace ==
  /\ callArgs.fn = "parseApiResponse"
  /\ ~callResult.done
  /\ callResult' = [done |-> TRUE,
                    threw |-> parseApiResponse(callArgs.data).threw,
                    mistakes |-> parseApiResponse(callArgs.data).mistakes]
  /\ callArgs' = [callArgs EXCEPT !.data = DefaultedInPlace(@)]
  /\ UNCHANGED widgetVars

CallParseApiResponse ==
  /\ callArgs.fn = "parseApiResponse"
  /\ ~callResult.done
  /\ callResult' = [done |-> TRUE,
                    threw |-> parseApiResponse(callArgs.data).threw,
                    mistakes |-> parseApiResponse(callArgs.data).mistakes]
  /\ UNCHANGED <<widgetVars, callArgs>>

NextNorm == CallParseApiResponse

SpecNorm == InitNorm /\ [][NextNorm]_vars

(***************************************************************************)
(* Properties of parseApiResponse, checked under SpecNorm.                 *)
(***************************************************************************)
Returned == callResult.done /\ ~callResult.threw

\* the entries of a list of the payload that the code reads
ItemsRead(usable, list) == IF usable /\ list.isArray THEN list.items ELSE <<>>
SpellingRead ==
  ItemsRead(~callArgs.data.isNull /\ callArgs.data.text.present,
            callArgs.data.text.spelling_issues)
GrammarRead ==
  ItemsRead(~callArgs.data.isNull /\ callArgs.data.text.present,
            callArgs.data.text.grammar_issues)
FlatRead == ItemsRead(~callArgs.data.isNull, callArgs.data.mistakes)

HasLocation(issue) == ~issue.isNull /\ issue.location.present
HasBothIndices(m) ==
  ~m.isNull /\ m.startIndex # Undefined /\ m.endIndex # Undefined
HasOffsetAndLength(issue) ==
  /\ HasLocation(issue)
  /\ issue.location.offset # Undefined
  /\ issue.location.length # Undefined

C4_RecordsInRange ==
  Returned =>
    \A i \in 1..Len(callResult.mistakes) :
      LET m == callResult.mistakes[i] IN
      /\ IsNum(m.startIndex)
      /\ IsNum(m.endIndex)
      /\ 0 <= m.startIndex.n
      /\ m.startIndex.n < m.endIndex.n
      /\ m.endIndex.n <= Len(callArgs.text)

\* C5 as stated: the normalizer never fails as a whole, and it keeps exactly
\* the issues that have all required fields (nested: a location with offset
\* and length; flat: startIndex and endIndex) and drops the others.
C5_DropsExactlyIncomplete ==
  callResult.done =>
    /\ ~callResult.threw
    /\ Len(callResult.mistakes) =
         Len(SelectSeq(SpellingRead, HasOffsetAndLength))
           + Len(SelectSeq(GrammarRead, HasOffsetAndLength))
           + Len(SelectSeq(FlatRead, HasBothIndices))

\* the flat entries that have startIndex and endIndex, and the records
\* returned for them: the last ones of the list
FlatKept == SelectSeq(FlatRead, HasBothIndices)
FlatRecord(i) ==
  callResult.mistakes[Len(callResult.mistakes) - Len(FlatKept) + i]

Falsy(v) == v \in {Undefined, Str(""), Num(0)}

\* C20: for every entry of a flat payload that has startIndex and endIndex,
\* the record has type "spelling" if the entry's type is missing, undefined
\* or otherwise falsy and the entry's type if not, and its offsets, message,
\* suggestions and code are those of the entry.
C20_FlatTypeDefaulted ==
  Returned =>
    /\ Len(FlatKept) <= Len(callResult.mistakes)
    /\ \A i \in 1..Len(FlatKept) :
         /\ FlatRecord(i).type =
              (IF Falsy(FlatKept[i].type) THEN Str("spelling")
               ELSE FlatKept[i].type)
         /\ FlatRecord(i).startIndex = FlatKept[i].startIndex
         /\ FlatRecord(i).endIndex = FlatKept[i].endIndex
         /\ FlatRecord(i).message = FlatKept[i].message
         /\ FlatRecord(i).suggestions = FlatKept[i].suggestions
         /\ FlatRecord(i).code = FlatKept[i].code

\* a flat payload with an entry of type "" and an entry of type "style"
\* with suggestions and a code was parsed
C20_Witness ==
  /\ Returned
  /\ Len(FlatKept) = 2
  /\ FlatKept[1].type = Str("")
  /\ FlatKept[2] = FullEntry(Str("style"))
  /\ FlatRecord(1).type = Str("spelling")
  /\ FlatRecord(2).type = Str("style")

MaxTextLen == 3
MaxMistakes == 2

RenderChars == {"a", " ", "<"}
RenderTexts == UNION {[1..n -> RenderChars] : n \in 0..MaxTextLen}

\* the characters of a contenteditable text: those that occur nowhere in the
\* markup highlightContentEditableMistakes inserts, so that a mistake text
\* is only ever found in the text of the html, never inside a tag
EditableChars == {"f", "&"}
EditableTexts == UNION {[1..n -> EditableChars] : n \in 0..MaxTextLen}

Mistake(start, end) ==
  [startIndex |-> Num(start), endIndex |-> Num(end), message |-> Str("m"),
   suggestions |-> Arr(<<>>), type |-> Str("spelling"), code |-> Undefined]

RenderMistakes ==
  {Mistake(s, e) : s \in -1..(MaxTextLen + 1), e \in -1..(MaxTextLen + 1)}

InitRender ==
  /\ \E v \in {"full", "basic"} : variant = v
  /\ \E el \in {"e1", "ce"} :
       \E t \in (IF el = "ce" THEN EditableTexts ELSE RenderTexts) :
         /\ value = [x \in El |-> IF x = el THEN t ELSE <<>>]
         /\ \E n \in 0..MaxMistakes :
              \E ms \in [1..n -> RenderMistakes] :
              callArgs = [NoCall EXCEPT !.fn = "highlightMistakes", !.el = el,
                                        !.text = t, !.mistakes = ms]
  /\ marks = [x \in El |-> <<>>]
  /\ activeInputs = [x \in El |-> EmptyEntry]
  /\ body = <<>>
  /\ timeout = NoTimer
  /\ requests = {}
  /\ issued = 0
  /\ arrived = [x \in El |-> <<>>]
  /\ unchecked = {}
  /\ lastStep = Idle
  /\ scroll = NoScroll
  /\ dataset = NoDataset
  /\ popup = NoPopup
  /\ config = DefaultConfig(variant)
  /\ selection = [el \in El |-> 0]
  /\ calledIn = NoBefore
  /\ doc = NoDoc
  /\ callResult = NoResult

CallHighlightMistakes ==
  /\ callArgs.fn = "highlightMistakes"
  /\ ~callResult.done
  /\ SetDom(highlightMistakes(variant, Dom, callArgs.el, callArgs.mistakes))
  /\ callResult' = [NoResult EXCEPT !.done = TRUE]
  /\ UNCHANGED <<variant, doc, scroll, popup, config, selection, calledIn, timeout, requests, issued,
                 arrived, unchecked, lastStep, callArgs>>

NextRender == CallHighlightMistakes

SpecRender == InitRender /\ [][NextRender]_vars

(***************************************************************************)
(* Properties of highlightMistakes, checked under SpecRender.              *)
(***************************************************************************)
\* the text content with each U+00A0 read back as the space it stands for
Unescaped(text) ==
  [i \in 1..Len(text) |-> IF text[i] = NBSP THEN " " ELSE text[i]]

HasOverlay(el) == activeInputs[el].has /\ activeInputs[el].overlay # 0
OverlayOf(el) == body[activeInputs[el].overlay]

InRange(m, len) ==
  /\ IsNum(m.startIndex) /\ IsNum(m.endIndex)
  /\ 0 <= m.startIndex.n /\ m.startIndex.n <= len
  /\ 0 <= m.endIndex.n /\ m.endIndex.n <= len

ProperSpan(m, len) == InRange(m, len) /\ m.startIndex.n < m.endIndex.n

NonOverlapping(ms) ==
  \A i, j \in 1..Len(ms) :
    i # j => \/ ms[i].endIndex.n <= ms[j].startIndex.n
             \/ ms[j].endIndex.n <= ms[i].startIndex.n

\* the marked spans of an overlay are exactly the given spans, in order
MarksExactly(overlay, ms) ==
  /\ Len(overlay.spans) = Len(ms)
  /\ \A k \in 1..Len(ms) :
       /\ overlay.spans[k].from = ms[k].startIndex.n
       /\ overlay.spans[k].to = ms[k].endIndex.n

\* C2 as stated: for any text and any in-range, pairwise non-overlapping
\* mistakes in any order, the un-escaped overlay content is exactly the text,
\* with one marked span per mistake holding text[startIndex, endIndex), the
\* markers in ascending startIndex order.
C2_OverlayReconstructsText ==
  (/\ callResult.done
   /\ callArgs.el = "e1"
   /\ Len(callArgs.mistakes) > 0
   /\ \A i \in 1..Len(callArgs.mistakes) :
        ProperSpan(callArgs.mistakes[i], Len(callArgs.text))
   /\ NonOverlapping(callArgs.mistakes))
  => /\ HasOverlay("e1")
     /\ Unescaped(OverlayOf("e1").text) = callArgs.text
     /\ MarksExactly(OverlayOf("e1"), SortByStart(callArgs.mistakes))

\* the same, of the variant that escapes (src/spellchecker.js) alone
C2_HoldsOfFullVariant == variant = "full" => C2_OverlayReconstructsText

\* what an element shows: its overlay, its text and the spans inside it
Shown(D, el) ==
  [overlay |-> IF D.activeInputs[el].has /\ D.activeInputs[el].overlay # 0
               THEN <<D.body[D.activeInputs[el].overlay]>>
               ELSE <<>>,
   value |-> D.value[el],
   marks |-> D.marks[el]]

\* the state highlightMistakes was called in
RenderStart ==
  [activeInputs |-> [x \in El |-> EmptyEntry],
   body |-> <<>>,
   value |-> [x \in El |-> IF x = callArgs.el THEN callArgs.text ELSE <<>>],
   marks |-> [x \in El |-> <<>>],
   dataset |-> NoDataset,
   scroll |-> NoScroll]

InRangeOnly(ms, len) == SelectSeq(ms, LAMBDA m : InRange(m, len))

\* C6 as stated: a mistake whose startIndex or endIndex lies outside
\* [0, length(text)] is dropped, not clamped, and the in-range mistakes are
\* rendered as if it were absent; for inputs, textareas and contenteditables.
C6_OutOfRangeDropped ==
  callResult.done =>
    Shown(Dom, callArgs.el) =
      Shown(highlightMistakes(variant, RenderStart, callArgs.el,
                              InRangeOnly(callArgs.mistakes, Len(callArgs.text))),
            callArgs.el)

\* the same, of contenteditable elements alone
C6_ContentEditableDropped == callArgs.el = "ce" => C6_OutOfRangeDropped

\* C17 as stated: for an input, a textarea or a contenteditable and every
\* mistake list, the element's value / text content and its child structure
\* are the same after highlightMistakes as before it.
C17_ContentUnchanged ==
  callResult.done =>
    /\ value[callArgs.el] = RenderStart.value[callArgs.el]
    /\ marks[callArgs.el] = RenderStart.marks[callArgs.el]

\* the same, of inputs and textareas, and of the variant that only logs for
\* a contenteditable (src/unnamed/part_001)
C17_HoldsOfValueElements ==
  (~IsContentEditable(callArgs.el) \/ variant = "basic") => C17_ContentUnchanged

(***************************************************************************)
(* Spec: the widget on a page.  The input e1 is attached by init(), the    *)
(* textarea e2 is attached later, the user edits, the debounce timer fires *)
(* and check cycles run, each through its awaits: the authentication       *)
(* headers, the fetch, the body of the response.                           *)
(***************************************************************************)
MaxValueLen == 3
MaxCycles == 2

PageEl == {"e1", "e2"}
\* the texts the user leaves in an element: the first characters of a
\* space followed by a word, so the empty text, a blank one, and words
TypedText(n) == [i \in 1..n |-> IF i = 1 THEN " " ELSE "a"]
EditTexts == {TypedText(n) : n \in 0..MaxValueLen}

domVars == <<activeInputs, body, value, marks, dataset>>

Init ==
  /\ \E v \in {"full", "basic"} : WidgetInit(v)
  /\ callArgs = NoCall
  /\ callResult = NoResult

\* attachSpellChecker (src/spellchecker.js 799-812, src/unnamed/part_001 231-252)
attachSpellChecker(D, el) ==
  IF D.activeInputs[el].has THEN D
  ELSE [D EXCEPT !.activeInputs[el] = EmptyEntry]

\* the function debounce returns: clearTimeout(timeout); timeout =
\* setTimeout(later, wait).  handleInputChange is the one function made by
\* the one call of debounce, so every element shares the one timeout.
\* wait is the argument of that one call, debounce(function(event) {...},
\* config.debounceMs), evaluated when the script runs (src/spellchecker.js
\* 790-794, src/unnamed/part_001 222-226)
handleInputChangeWait == DefaultConfig(variant).debounceMs

executedFunction(timer, el) ==
  [set |-> TRUE, target |-> el, wait |-> handleInputChangeWait]

\* if (!text || text.trim() === '')
NothingToCheck(text) == Len(text) = 0 \/ IsBlank(text)

\* if (!response.ok) throw new Error(...)
StatusIgnored(ok) == FALSE
StatusThrows(ok) == ~ok

Step(kind, el) == [kind |-> kind, el |-> el]

Attach(el) ==
  /\ ~activeInputs[el].has
  /\ SetDom(attachSpellChecker(Dom, el))
  /\ lastStep' = Idle
  /\ UNCHANGED <<variant, doc, scroll, popup, config, selection, calledIn, timeout, requests, issued, arrived, unchecked,
                 callArgs, callResult>>

\* the user changes the text of an attached element: its input event
\* calls handleInputChange
Edit(el, t) ==
  /\ activeInputs[el].has
  /\ t # value[el]
  /\ value' = [value EXCEPT ![el] = t]
  /\ timeout' = executedFunction(timeout, el)
  /\ unchecked' = unchecked \cup {el}
  /\ lastStep' = Idle
  /\ UNCHANGED <<variant, doc, scroll, popup, config, selection, calledIn, dataset, marks,
                 activeInputs, body, requests, issued, arrived,
                 callArgs, callResult>>

\* the timer fires: later() calls the debounced function, which reads the
\* text of event.target and calls checkSpelling, up to its first await
TimerFires ==
  /\ timeout.set
  /\ LET el == timeout.target
         text == value[el]
     IN IF NothingToCheck(text)
        THEN /\ SetDom(clearHighlights(Dom, el))
             /\ lastStep' = Step("cleared", el)
             /\ UNCHANGED <<requests, issued>>
        ELSE /\ issued < MaxCycles
             /\ requests' = requests \cup
                  {[seq |-> issued + 1, el |-> el, text |-> text,
                    stage |-> "auth", tokenThrew |-> FALSE, url |-> ""]}
             /\ issued' = issued + 1
             /\ lastStep' = Step("started", el)
             /\ UNCHANGED domVars
  /\ timeout' = NoTimer
  /\ unchecked' = unchecked \ {timeout.target}
  /\ UNCHANGED <<variant, doc, scroll, popup, config, selection, calledIn, arrived, callArgs, callResult>>

\* a cycle goes on to its next await
Proceed(r, next) ==
  /\ requests' = (requests \ {r}) \cup {next}
  /\ lastStep' = Idle
  /\ UNCHANGED <<variant, doc, scroll, popup, config, selection, calledIn, domVars, timeout, issued, arrived, unchecked,
                 callArgs, callResult>>

\* catch (error) { console.error('Spell check failed:', error); }
Caught(r) ==
  /\ requests' = requests \ {r}
  /\ lastStep' = Step("failed", r.el)
  /\ UNCHANGED <<variant, doc, scroll, popup, config, selection, calledIn, domVars, timeout, issued, arrived, unchecked,
                 callArgs, callResult>>

\* await prepareAuthHeaders() / await getAuthToken() resolves; fetch is called
\* with config.apiEndpoint (src/spellchecker.js 523, src/unnamed/part_001 110)
AuthResolves(r) ==
  /\ r.stage = "auth"
  /\ Proceed(r, [r EXCEPT !.stage = "fetch", !.url = config.apiEndpoint])

\* config.auth.detectAuthMethod() throws: nothing catches it before the
\* catch of checkSpelling, in either variant
DetectThrows(r) ==
  /\ r.stage = "auth"
  /\ Caught(r)

\* the token retriever throws or its promise rejects: getAuthToken lets it
\* through to the catch of checkSpelling (src/unnamed/part_001 94-95);
\* prepareAuthHeaders catches it itself and returns the headers without
\* Authorization, so the request is sent (src/spellchecker.js 412-423)
RetrieverThrows(r) ==
  /\ r.stage = "auth"
  /\ IF variant = "basic"
     THEN Caught(r)
     ELSE Proceed(r, [r EXCEPT !.stage = "fetch", !.tokenThrew = TRUE,
                               !.url = config.apiEndpoint])

\* await fetch(...) rejects
FetchRejects(r) ==
  /\ r.stage = "fetch"
  /\ Caught(r)

\* await fetch(...) resolves with a response
FetchResolves(r, ok) ==
  /\ r.stage = "fetch"
  /\ IF StatusThrows(ok)
     THEN Caught(r)
     ELSE Proceed(r, [r EXCEPT !.stage = "json"])

\* await response.json() rejects: the body is not JSON
JsonInvalid(r) ==
  /\ r.stage = "json"
  /\ Caught(r)

\* the responses of the server to a request for a text: no mistake, the
\* first letter, or the whole word, in the nested and in the flat shape
ServerSpans(text) == {<<1, 2>>, <<1, Len(text)>>}

ServerPayloads(text) ==
  {Payload(ArrayOf(<<>>), NotAnArray, NotAnArray),
   Payload(NotAnArray, NotAnArray, ArrayOf(<<>>))}
    \cup {Payload(ArrayOf(<<Issue(TRUE, Num(z[1]), Num(z[2] - z[1]))>>),
                  NotAnArray, NotAnArray) : z \in ServerSpans(text)}
    \cup {Payload(NotAnArray, NotAnArray,
                  ArrayOf(<<Entry(Num(z[1]), Num(z[2]), Undefined)>>)) :
            z \in ServerSpans(text)}

\* an entry of data.mistakes handed to highlightMistakes as it is
\* (src/unnamed/part_001 124)
RawMistake(m) ==
  [startIndex |-> m.startIndex, endIndex |-> m.endIndex, message |-> m.message,
   suggestions |-> m.suggestions, type |-> m.type, code |-> m.code]

\* data.mistakes || []
MistakesOrEmpty(data) ==
  IF data.mistakes.isArray
  THEN [k \in 1..Len(data.mistakes.items) |-> RawMistake(data.mistakes.items[k])]
  ELSE <<>>

\* what checkSpelling does with the body of a response: in
\* src/spellchecker.js 530-541 parseApiResponse(data), then highlightMistakes;
\* in src/unnamed/part_001 123-124 highlightMistakes(el, data.mistakes || []).
\* An exception ends in the catch of checkSpelling.
applyResponseOnce(v, D, el, data) ==
  LET ms == IF v = "full" THEN parseApiResponse(data).mistakes
            ELSE MistakesOrEmpty(data)
  IN [threw |-> FALSE, mistakes |-> ms,
      D |-> IF D.activeInputs[el].has /\ D.activeInputs[el].overlay # 0
            THEN D ELSE highlightMistakes(v, D, el, ms)]

applyResponse(v, D, el, data) ==
  IF v = "full"
  THEN LET parsed == parseApiResponse(data) IN
       IF parsed.threw THEN [threw |-> TRUE, mistakes |-> <<>>, D |-> D]
       ELSE [threw |-> FALSE, mistakes |-> parsed.mistakes,
             D |-> highlightMistakes(v, D, el, parsed.mistakes)]
  ELSE IF data.isNull THEN [threw |-> TRUE, mistakes |-> <<>>, D |-> D]
  ELSE IF HasNullEntry(data.mistakes)
  THEN IF IsContentEditable(el)
       THEN [threw |-> FALSE, mistakes |-> <<>>, D |-> D]
       ELSE [threw |-> TRUE, mistakes |-> <<>>, D |-> clearHighlights(D, el)]
  ELSE [threw |-> FALSE, mistakes |-> MistakesOrEmpty(data),
        D |-> highlightMistakes(v, D, el, MistakesOrEmpty(data))]

\* await response.json() resolves with data
JsonResolves(r, data) ==
  /\ r.stage = "json"
  /\ LET res == applyResponse(variant, Dom, r.el, data) IN
     /\ SetDom(res.D)
     /\ IF res.threw
        THEN /\ lastStep' = Step("threw", r.el)
             /\ UNCHANGED arrived
        ELSE /\ lastStep' = Step("response", r.el)
             /\ arrived' = [arrived EXCEPT ![r.el] =
                  Append(@, [seq |-> r.seq, mistakes |-> res.mistakes])]
  /\ requests' = requests \ {r}
  /\ UNCHANGED <<variant, doc, scroll, popup, config, selection, calledIn, timeout, issued, unchecked, callArgs, callResult>>

Next ==
  \/ \E el \in PageEl : Attach(el)
  \/ \E el \in PageEl : \E t \in EditTexts : Edit(el, t)
  \/ TimerFires
  \/ \E r \in requests : AuthResolves(r)
  \/ \E r \in requests : DetectThrows(r)
  \/ \E r \in requests : RetrieverThrows(r)
  \/ \E r \in requests : FetchRejects(r)
  \/ \E r \in requests : \E ok \in BOOLEAN : FetchResolves(r, ok)
  \/ \E r \in requests : JsonInvalid(r)
  \/ \E r \in requests : \E data \in ServerPayloads(r.text) : JsonResolves(r, data)

Spec == Init /\ [][Next]_vars

(***************************************************************************)
(* Properties of the widget, checked under Spec.                           *)
(***************************************************************************)
\* C1 as stated: in every reachable state every tracked input or textarea
\* has no overlay, or an overlay whose un-escaped text is the element's
\* current value and whose marked spans are exactly the stored
\* [startIndex, endIndex), also between an edit and the next check cycle.
C1_OverlayMatchesValue ==
  \A el \in PageEl :
    HasOverlay(el) =>
      /\ Unescaped(OverlayOf(el).text) = value[el]
      /\ MarksExactly(OverlayOf(el), activeInputs[el].mistakes)

InFlight(el) == {r \in requests : r.el = el}

\* the response, among those that arrived for el, of the request issued last
Newest(el) ==
  LET a == arrived[el]
  IN a[CHOOSE i \in 1..Len(a) : \A j \in 1..Len(a) : a[j].seq <= a[i].seq]

\* the response that arrived last for el
LastArrived(el) == arrived[el][Len(arrived[el])]

\* el shows and stores what rendering the list ms on it gives
ShowsRenderingOf(el, ms) ==
  LET R == highlightMistakes(variant, Dom, el, ms)
  IN /\ Shown(Dom, el) = Shown(R, el)
     /\ activeInputs[el].mistakes = R.activeInputs[el].mistakes

\* C7 as stated: once the responses of two cycles of one element have both
\* been processed, in either order of arrival, the overlay and the stored
\* mistake list of the element are those of the request issued last.
C7_LatestRequestWins ==
  \A el \in PageEl :
    (/\ lastStep.kind = "response" /\ lastStep.el = el
     /\ InFlight(el) = {}
     /\ Len(arrived[el]) >= 2)
    => ShowsRenderingOf(el, Newest(el).mistakes)

\* C8: every successful response is applied when it arrives: after a
\* response has been processed the element shows the overlay computed from
\* that response, the last to arrive, also when it answers an older request
\* than the one rendered before.
C8_LastArrivalWins ==
  \A el \in PageEl :
    (lastStep.kind = "response" /\ lastStep.el = el)
    => ShowsRenderingOf(el, LastArrived(el).mistakes)

\* the response of the older request arrived last and replaced the overlay
\* of the newer one, with nothing left in flight
C8_Witness ==
  \E el \in PageEl :
    /\ lastStep.kind = "response" /\ lastStep.el = el
    /\ InFlight(el) = {}
    /\ Len(arrived[el]) = 2
    /\ arrived[el][2].seq < arrived[el][1].seq
    /\ HasOverlay(el)
    /\ ~ShowsRenderingOf(el, arrived[el][1].mistakes)

\* what a failed cycle leaves behind: the registry, the overlays and the
\* texts as they were, the cycle gone, no request added
EndsUnchanged(r) ==
  /\ UNCHANGED domVars
  /\ requests' = requests \ {r}
  /\ issued' = issued

\* C9 as stated: a cycle in which fetch rejects, the status is non-success,
\* the body is not valid JSON or token retrieval throws ends there and
\* leaves the registry and every overlay unchanged, with no further request.
C9_FailureLeavesOverlay ==
  [][\A r \in requests :
       (\/ FetchRejects(r)
        \/ FetchResolves(r, FALSE)
        \/ JsonInvalid(r)
        \/ DetectThrows(r)
        \/ RetrieverThrows(r))
       => EndsUnchanged(r)]_vars

\* C9 amended: the same, where a throwing token retriever fails the cycle
\* in src/unnamed/part_001 only; in src/spellchecker.js prepareAuthHeaders
\* catches it and the cycle goes on to send the request.
C9_CaughtFailureLeavesOverlay ==
  [][\A r \in requests :
       (\/ FetchRejects(r)
        \/ FetchResolves(r, FALSE)
        \/ JsonInvalid(r)
        \/ DetectThrows(r)
        \/ (variant = "basic" /\ RetrieverThrows(r)))
       => EndsUnchanged(r)]_vars

\* a cycle has just failed and the highlights of its element are still there
C9_Witness ==
  /\ lastStep.kind = "failed"
  /\ HasOverlay(lastStep.el)
  /\ InFlight(lastStep.el) = {}

\* C10 as stated: every element with an edit not yet checked has the wait
\* pending that will check it, one wait at most is pending, and the cycle a
\* wait starts reads the text the element has at that moment.
C10_BurstStartsOneCheck ==
  /\ \A el \in unchecked : timeout.set /\ timeout.target = el
  /\ lastStep.kind = "started" =>
       \E r \in requests :
         /\ r.seq = issued /\ r.el = lastStep.el /\ r.stage = "auth"
         /\ r.text = value[r.el]

\* the same, while the page has one attached element only
C10_HoldsOfOneElement == ~activeInputs["e2"].has => C10_BurstStartsOneCheck

\* the debounce wait that will start the check of el is pending
PendingCheck(el) == timeout.set /\ timeout.target = el

EditOf(el) == \E t \in EditTexts : Edit(el, t)

\* C24 as stated: an edit on an attached element never cancels the pending
\* check of another element: the wait that was pending for element a before
\* the edit of element b is still pending after it.
C24_EditKeepsOtherPending ==
  [][\A a, b \in PageEl :
       (a # b /\ PendingCheck(a) /\ EditOf(b)) => PendingCheck(a)']_vars

\* the same, of the edits of one element: the wait of a is pending after
\* every edit of a
C24_HoldsOfOneElement ==
  [][\A a \in PageEl : EditOf(a) => PendingCheck(a)']_vars

\* a cycle that starts with empty or whitespace-only text removes the
\* element's overlay and mistake list and issues no request
BlankCycleClears ==
  /\ lastStep.kind = "cleared" =>
       /\ ~HasOverlay(lastStep.el)
       /\ activeInputs[lastStep.el].mistakes = <<>>
  /\ \A r \in requests : ~NothingToCheck(r.text)

\* C19 as stated: a check cycle that starts with empty or whitespace-only
\* text removes the element's overlay and mistake list immediately and
\* issues no request, and a check cycle that starts with non-empty text
\* leaves no overlay of the previous cycle displayed while its request is
\* pending.
C19_NewCycleDiscardsMistakes ==
  /\ BlankCycleClears
  /\ lastStep.kind = "started" =>
       /\ ~HasOverlay(lastStep.el)
       /\ activeInputs[lastStep.el].mistakes = <<>>

\* the same, of the cycles that start with empty or whitespace-only text
C19_HoldsOfBlankText == BlankCycleClears

\* a cycle has started with blank text on an element that showed an overlay
C19_BlankTextReached ==
  lastStep.kind = "cleared" /\ arrived[lastStep.el] # <<>>

(***************************************************************************)
(* SpecOps: the operations on the registry and the document called one     *)
(* after the other, as check cycles, attachments and scroll events call    *)
(* them: highlightMistakes and clearHighlights on the input e1 and the     *)
(* textarea e2, attachSpellChecker, the scroll handler.                    *)
(***************************************************************************)
MaxScroll == 1

OpsText == <<"a", "b">>

Scrolls == {[x |-> x, y |-> y] : x, y \in 0..MaxScroll}

\* the spans a check cycle may hand to the renderer
OpsSpans == {<<s, e>> \in (0..Len(OpsText)) \X (0..Len(OpsText)) : s < e}
OpsLists ==
  {<<>>} \cup {<<Mistake(z[1], z[2])>> : z \in OpsSpans}
         \cup {<<Mistake(0, 1), Mistake(1, 2)>>, <<Mistake(1, 2), Mistake(0, 1)>>}

\* updateFixedOverlayPositions (src/spellchecker.js 694-712)
updateFixedOverlayPositions(D) ==
  LET moved == {el \in El : D.activeInputs[el].has /\ D.activeInputs[el].overlay # 0}
      owner(id) == CHOOSE el \in moved : D.activeInputs[el].overlay = id
  IN [D EXCEPT
        !.body = [id \in DOMAIN D.body |->
                    IF \E el \in moved : D.activeInputs[el].overlay = id
                    THEN [D.body[id] EXCEPT
                            !.left = getBoundingClientRect(owner(id), D.scroll).left,
                            !.top = getBoundingClientRect(owner(id), D.scroll).top]
                    ELSE D.body[id]],
        !.activeInputs = [el \in El |->
                    IF el \in moved
                    THEN [D.activeInputs[el] EXCEPT
                            !.inputRect = getBoundingClientRect(el, D.scroll)]
                    ELSE D.activeInputs[el]]]

\* the scroll handler that leaves the overlays where they are
repositionNothing(v, D) == D

\* repositionOverlays (src/spellchecker.js 817-819, src/unnamed/part_001
\* 257-267)
repositionOverlays(v, D) ==
  IF v = "full" THEN updateFixedOverlayPositions(D)
  ELSE LET moved == {el \in El : D.activeInputs[el].has /\ D.activeInputs[el].overlay # 0}
           owner(id) == CHOOSE el \in moved : D.activeInputs[el].overlay = id
       IN [D EXCEPT
             !.body = [id \in DOMAIN D.body |->
                IF \E el \in moved : D.activeInputs[el].overlay = id
                THEN [D.body[id] EXCEPT
                        !.left = getBoundingClientRect(owner(id), D.scroll).left
                                   + D.scroll.x,
                        !.top = getBoundingClientRect(owner(id), D.scroll).top
                                  + D.scroll.y]
                ELSE D.body[id]]]

OpsCall(fn, el, ms) == [NoCall EXCEPT !.fn = fn, !.el = el, !.mistakes = ms]

InitOps ==
  /\ \E v \in {"full", "basic"} : WidgetInit(v)
  /\ callArgs = NoCall
  /\ callResult = NoResult

\* the observation of a direct call
Called(kind, fn, el, ms) ==
  /\ calledIn' = Dom
  /\ lastStep' = Step(kind, el)
  /\ callArgs' = OpsCall(fn, el, ms)
  /\ UNCHANGED <<variant, doc, popup, config, selection, timeout, requests, issued, arrived,
                 unchecked, callResult>>

OpsAttach(el) ==
  /\ SetDom(attachSpellChecker(Dom, el))
  /\ Called("attach", "attachSpellChecker", el, <<>>)
  /\ UNCHANGED scroll

OpsSetValue(el) ==
  /\ value[el] # OpsText
  /\ value' = [value EXCEPT ![el] = OpsText]
  /\ Called("value", "none", el, <<>>)
  /\ UNCHANGED <<scroll, activeInputs, body, marks, dataset>>

OpsHighlight(el, ms) ==
  /\ SetDom(highlightMistakes(variant, Dom, el, ms))
  /\ Called("highlight", "highlightMistakes", el, ms)
  /\ UNCHANGED scroll

OpsClear(el) ==
  /\ SetDom(clearHighlights(Dom, el))
  /\ Called("clear", "clearHighlights", el, <<>>)
  /\ UNCHANGED scroll

\* the window is scrolled and the scroll listener runs
OpsScroll(sc) ==
  /\ sc # scroll
  /\ scroll' = sc
  /\ SetDom(repositionOverlays(variant, [Dom EXCEPT !.scroll = sc]))
  /\ Called("scroll", "repositionOverlays", "e1", <<>>)

NextOps ==
  \/ \E el \in PageEl : OpsAttach(el)
  \/ \E el \in PageEl : OpsSetValue(el)
  \/ \E el \in PageEl : \E ms \in OpsLists : OpsHighlight(el, ms)
  \/ \E el \in PageEl : OpsClear(el)
  \/ \E sc \in Scrolls : OpsScroll(sc)

SpecOps == InitOps /\ [][NextOps]_vars

(***************************************************************************)
(* Properties of the operations, checked under SpecOps.                    *)
(***************************************************************************)
Recorded(D) ==
  {D.activeInputs[el].overlay : el \in {x \in El : D.activeInputs[x].overlay # 0}}

\* C11: the overlay nodes attached to the document are exactly the overlays
\* the state entries record, one per element at most: no orphaned overlay
\* stays in the document and no entry refers to a removed overlay.
C11_OneOverlayPerElement ==
  /\ DOMAIN body = Recorded(Dom)
  /\ \A el, x \in El :
       (el # x /\ activeInputs[el].overlay # 0)
       => activeInputs[el].overlay # activeInputs[x].overlay

\* an element that had an overlay was rendered again, in a scrolled window
C11_Witness ==
  /\ lastStep.kind = "highlight"
  /\ calledIn.activeInputs[lastStep.el].overlay # 0
  /\ HasOverlay(lastStep.el)
  /\ calledIn.activeInputs[lastStep.el].mistakes # activeInputs[lastStep.el].mistakes
  /\ scroll # NoScroll

\* C12: after highlightMistakes(element, []) on an input or a textarea the
\* overlay the element had is removed from the document, no overlay is
\* created, and the entry holds neither an overlay nor a mistake list.
C12_EmptyListClears ==
  (lastStep.kind = "highlight" /\ callArgs.mistakes = <<>>)
  => /\ activeInputs[lastStep.el] = EmptyEntry
     /\ body = RemoveNode(calledIn.body, calledIn.activeInputs[lastStep.el].overlay)
     /\ \A x \in El \ {lastStep.el} : activeInputs[x] = calledIn.activeInputs[x]

\* highlightMistakes(element, []) was called on an element with an overlay
C12_Witness ==
  /\ lastStep.kind = "highlight" /\ callArgs.mistakes = <<>>
  /\ calledIn.activeInputs[lastStep.el].overlay # 0
  /\ calledIn.activeInputs[lastStep.el].overlay \in DOMAIN calledIn.body

\* C13 as stated: clearHighlights on an element without an overlay leaves
\* the registry, the set of elements it tracks included, and the document
\* as they were, also for an element that was never attached; and calling
\* clearHighlights twice gives the state calling it once gives.
C13_ClearIsNoOp ==
  /\ (lastStep.kind = "clear" /\ calledIn.activeInputs[lastStep.el].overlay = 0)
     => /\ activeInputs = calledIn.activeInputs
        /\ body = calledIn.body
  /\ \A el \in El :
       clearHighlights(clearHighlights(Dom, el), el) = clearHighlights(Dom, el)

\* the same, of elements that have been attached
C13_HoldsOfAttached ==
  (lastStep.kind = "clear" /\ calledIn.activeInputs[lastStep.el].has)
  => C13_ClearIsNoOp

Tracked(D) == {el \in El : D.activeInputs[el].has}

\* C14 as stated: after a scroll event every tracked element with an
\* overlay has the overlay's left and top at the left and top of its
\* bounding box, and the entries of the elements without overlay are as
\* they were.
C14_OverlayAtBoundingBox ==
  lastStep.kind = "scroll" =>
    \A el \in Tracked(Dom) :
      IF activeInputs[el].overlay # 0
      THEN /\ OverlayOf(el).left = getBoundingClientRect(el, scroll).left
           /\ OverlayOf(el).top = getBoundingClientRect(el, scroll).top
      ELSE activeInputs[el] = calledIn.activeInputs[el]

\* C14 amended: the overlays of src/spellchecker.js, positioned fixed, are at
\* the bounding box; those of src/unnamed/part_001, positioned absolute,
\* are at the bounding box plus the scroll offsets of the window.
C14_OverlayFollowsElement ==
  lastStep.kind = "scroll" =>
    \A el \in Tracked(Dom) :
      IF activeInputs[el].overlay # 0
      THEN /\ OverlayOf(el).left =
                getBoundingClientRect(el, scroll).left
                  + (IF variant = "full" THEN 0 ELSE scroll.x)
           /\ OverlayOf(el).top =
                getBoundingClientRect(el, scroll).top
                  + (IF variant = "full" THEN 0 ELSE scroll.y)
      ELSE activeInputs[el] = calledIn.activeInputs[el]

\* a scroll moved the window under an element that shows an overlay, next
\* to an element without one
C14_Witness ==
  /\ lastStep.kind = "scroll"
  /\ scroll # calledIn.scroll
  /\ HasOverlay("e2")
  /\ activeInputs["e1"].has /\ activeInputs["e1"].overlay = 0

(***************************************************************************)
(* Clicks on markers and the correction popup (src/spellchecker.js only).  *)
(***************************************************************************)
\* String.prototype.split(',')
RECURSIVE Split(_)
Split(chars) ==
  IF \E i \in 1..Len(chars) : chars[i] = ","
  THEN LET i == CHOOSE i \in 1..Len(chars) :
                  chars[i] = "," /\ \A j \in 1..(i - 1) : chars[j] # ","
       IN <<SubSeq(chars, 1, i - 1)>> \o Split(SubSeq(chars, i + 1, Len(chars)))
  ELSE <<chars>>

\* parseInt of the text of a number attribute
parseInt(v) == IF IsNum(v) THEN v ELSE NaN

\* document.getElementById(inputId), then
\* document.querySelector(`[data-spellcheck-id="${inputId}"]`)
FindInput(D, inputId) ==
  IF inputId.gen = 0
  THEN [found |-> inputId.el \in El /\ HtmlId(inputId.el) # "",
        el |-> IF inputId.el \in El THEN inputId.el ELSE "e1"]
  ELSE [found |-> D.dataset[inputId.el] = inputId.gen, el |-> inputId.el]

\* what handleMistakeClick reads from the marker and hands to
\* createCorrectionPopup (src/spellchecker.js 19-44)
handleMistakeClick(D, el, k) ==
  LET a == D.body[D.activeInputs[el].overlay].spans[k].attrs
      lookup == FindInput(D, a.inputId)
  IN [open |-> TRUE, owner |-> el, marker |-> k,
      found |-> lookup.found, inputElement |-> lookup.el,
      mistakeType |-> a.type, mistakeMessage |-> a.message,
      suggestions |-> IF a.suggestions # <<>> THEN Split(a.suggestions) ELSE <<>>,
      startIndex |-> parseInt(a.start), endIndex |-> parseInt(a.end),
      replaced |-> FALSE]

MaxTimers == 2

\* closeCorrectionPopup (src/spellchecker.js 271-278): the popup of the
\* reference is removed and the reference set to null, if there is one, and
\* handleOutsideClick is removed from the document
closeCorrectionPopup(pp, d) ==
  [popup |-> NoPopup,
   doc |-> [d EXCEPT !.popups = IF pp.open THEN @ - 1 ELSE @,
                     !.listener = FALSE]]

\* a createCorrectionPopup that does not close the popup that is open
createCorrectionPopupOverOld(pp, d, options) ==
  IF ~d.hostConfig
  THEN [threw |-> TRUE, popup |-> pp, doc |-> d]
  ELSE [threw |-> FALSE,
        popup |-> [options EXCEPT !.replaced = pp.open],
        doc |-> [d EXCEPT !.popups = @ + 1, !.timers = @ + 1]]

\* createCorrectionPopup (src/spellchecker.js 82-266): closeCorrectionPopup(),
\* then the popup is built, which throws a ReferenceError at config.cssPrefix
\* (line 88) if the page has no global config, then it is appended to
\* document.body, referenced by window.currentCorrectionPopup, and a timer
\* of 10 ms is set that will register handleOutsideClick.  replaced tells
\* whether a popup was open at the call (observation only).
createCorrectionPopup(pp, d, options) ==
  LET closed == closeCorrectionPopup(pp, d) IN
  IF ~d.hostConfig
  THEN [threw |-> TRUE, popup |-> closed.popup, doc |-> closed.doc]
  ELSE [threw |-> FALSE,
        popup |-> [options EXCEPT !.replaced = pp.open],
        doc |-> [closed.doc EXCEPT !.popups = @ + 1, !.timers = @ + 1]]

\* handleOutsideClick (src/spellchecker.js 283-289) for a click on a node
\* that is neither in the popup nor a marker: config.cssPrefix (line 286)
\* is read only if there is a popup, and throws without a global config
handleOutsideClick(pp, d) ==
  IF pp.open /\ d.hostConfig THEN closeCorrectionPopup(pp, d)
  ELSE [popup |-> pp, doc |-> d]

\* the user clicks the k-th marker of the overlay of el: handleMistakeClick
\* stops the propagation of the event and calls createCorrectionPopup
ClickMarker(el, k) ==
  /\ variant = "full"
  /\ activeInputs[el].has /\ activeInputs[el].overlay # 0
  /\ k \in 1..Len(body[activeInputs[el].overlay].spans)
  /\ doc.timers < MaxTimers
  /\ LET res == createCorrectionPopup(popup, doc, handleMistakeClick(Dom, el, k))
     IN /\ popup' = res.popup
        /\ doc' = res.doc
        /\ lastStep' = Step(IF res.threw THEN "threw" ELSE "click", el)
  /\ UNCHANGED <<variant, scroll, config, selection, calledIn, domVars, timeout, requests,
                 issued, arrived, unchecked, callArgs, callResult>>

\* the timer of 10 ms of a createCorrectionPopup fires:
\* document.addEventListener('click', handleOutsideClick)
RegistrationTimerFires ==
  /\ doc.timers > 0
  /\ doc' = [doc EXCEPT !.timers = @ - 1, !.listener = TRUE]
  /\ lastStep' = Step("registered", "e1")
  /\ UNCHANGED <<variant, popup, scroll, config, selection, calledIn, domVars,
                 timeout, requests, issued, arrived, unchecked, callArgs,
                 callResult>>

\* the user clicks the close button of the popup (src/spellchecker.js 157)
CloseButton ==
  /\ popup.open
  /\ LET closed == closeCorrectionPopup(popup, doc)
     IN popup' = closed.popup /\ doc' = closed.doc
  /\ lastStep' = Step("close", popup.owner)
  /\ UNCHANGED <<variant, scroll, config, selection, calledIn, domVars,
                 timeout, requests, issued, arrived, unchecked, callArgs,
                 callResult>>

\* the user clicks somewhere in the page, outside the popup and the markers,
\* while handleOutsideClick is registered on the document
OutsideClick ==
  /\ doc.listener
  /\ LET res == handleOutsideClick(popup, doc)
     IN popup' = res.popup /\ doc' = res.doc
  /\ lastStep' = Step("outside", "e1")
  /\ UNCHANGED <<variant, scroll, config, selection, calledIn, domVars,
                 timeout, requests, issued, arrived, unchecked, callArgs,
                 callResult>>

\* the page of the popup scenarios: with or without a global config
PageInit == \E g \in BOOLEAN : doc = [NoDoc EXCEPT !.hostConfig = g]

(***************************************************************************)
(* SpecMarker: highlightMistakes renders mistakes with their messages and  *)
(* suggestions, and a marker is clicked.                                   *)
(***************************************************************************)
MaxSuggestions == 2
MaxSuggestionLen == 1

SuggestionChars == {"a", ",", "\""}
SuggestionTexts == UNION {[1..n -> SuggestionChars] : n \in 0..MaxSuggestionLen}
SuggestionLists ==
  {Undefined} \cup {Arr(xs) : xs \in UNION {[1..n -> SuggestionTexts] :
                                              n \in 0..MaxSuggestions}}

MarkerMistake(start, end, message, suggestions) ==
  [Mistake(start, end) EXCEPT !.message = message, !.suggestions = suggestions]

InitMarker ==
  /\ ScriptInit("full")
  /\ PageInit
  /\ \E el \in PageEl :
       /\ \/ \E sg \in SuggestionLists, msg \in {Undefined, Str("m")} :
               callArgs = [OpsCall("highlightMistakes", el,
                                   <<MarkerMistake(0, 1, msg, sg)>>)
                             EXCEPT !.text = OpsText]
          \/ \E sg \in SuggestionLists, sh \in SuggestionLists :
               callArgs = [OpsCall("highlightMistakes", el,
                                   <<MarkerMistake(1, 2, Str("m"), sg),
                                     MarkerMistake(0, 1, Str("m"), sh)>>)
                             EXCEPT !.text = OpsText]
  /\ callResult = NoResult

\* the text is in the element when highlightMistakes is called
MarkerSetValue ==
  /\ ~callResult.done
  /\ value[callArgs.el] # callArgs.text
  /\ value' = [value EXCEPT ![callArgs.el] = callArgs.text]
  /\ UNCHANGED <<variant, doc, scroll, popup, config, selection, calledIn, dataset, marks,
                 activeInputs, body, timeout, requests, issued, arrived,
                 unchecked, lastStep, callArgs, callResult>>

MarkerHighlight ==
  /\ value[callArgs.el] = callArgs.text
  /\ CallHighlightMistakes

NextMarker ==
  \/ MarkerSetValue
  \/ MarkerHighlight
  \/ \E k \in 1..MaxMistakes : ClickMarker(callArgs.el, k)
  \/ RegistrationTimerFires

SpecMarker == InitMarker /\ [][NextMarker]_vars

\* the suggestions of a mistake as a list of strings
SuggestionsOf(m) == JsOr(m.suggestions, Arr(<<>>)).a

\* C16 as stated: what handleMistakeClick reads from a marker (type,
\* message, suggestions, startIndex, endIndex, owning element) is what the
\* rendered mistake held; the suggestions read back are as many, in the same
\* order, with the same text, whatever the suggestion strings.
C16_MarkerRoundTrip ==
  popup.open =>
    LET m == activeInputs[popup.owner].mistakes[popup.marker] IN
    /\ popup.mistakeType = m.type
    /\ popup.mistakeMessage = JsOr(m.message, Str(""))
    /\ popup.suggestions = SuggestionsOf(m)
    /\ popup.startIndex = m.startIndex
    /\ popup.endIndex = m.endIndex
    /\ popup.found /\ popup.inputElement = popup.owner

\* the same, without the suggestions and without the owning element
C16_HoldsOfOffsetsAndType ==
  popup.open =>
    LET m == activeInputs[popup.owner].mistakes[popup.marker] IN
    /\ popup.mistakeType = m.type
    /\ popup.mistakeMessage = JsOr(m.message, Str(""))
    /\ popup.startIndex = m.startIndex
    /\ popup.endIndex = m.endIndex

(***************************************************************************)
(* SpecCorrect: the input e1 (with an id) and the textarea e2 (without)    *)
(* show overlays, markers are clicked, and a suggestion or Ignore is       *)
(* chosen in the popup.                                                    *)
(***************************************************************************)
MaxCorrectedLen == 2

Correction == <<"c">>

CorrectMistake(start, end) ==
  MarkerMistake(start, end, Str("m"), Arr(<<Correction>>))

CorrectLists ==
  {<<CorrectMistake(0, 1)>>, <<CorrectMistake(0, 1), CorrectMistake(1, 2)>>}

\* inputElement.setSelectionRange(n, n): the caret, no further than the end
setSelectionRange(n, text) == Max(0, Min(ToInteger(n), Len(text)))

\* currentValue.substring(0, startIndex) + correction
\*   + currentValue.substring(endIndex)
CorrectedValue(currentValue, startIndex, correction, endIndex) ==
  substring(currentValue, Num(0), startIndex) \o correction
    \o substring(currentValue, endIndex, Undefined)

InitCorrect ==
  /\ ScriptInit("full")
  /\ PageInit
  /\ callArgs = NoCall
  /\ callResult = NoResult

\* onCorrect(options.suggestions[i]): the suggestion button (i = 1) or one
\* of the chips (src/spellchecker.js 49-72, 196-199, 236-241)
Correct(i) ==
  /\ popup.open
  /\ i \in 1..Min(5, Len(popup.suggestions))
  /\ LET correction == popup.suggestions[i]
         el == popup.inputElement
         newValue == CorrectedValue(value[el], popup.startIndex, correction,
                                    popup.endIndex)
     IN /\ IF popup.found
           THEN /\ Len(newValue) <= MaxCorrectedLen
                /\ value' = [value EXCEPT ![el] = newValue]
                /\ IF activeInputs[el].has
                   THEN /\ timeout' = executedFunction(timeout, el)
                        /\ unchecked' = unchecked \cup {el}
                   ELSE UNCHANGED <<timeout, unchecked>>
                /\ selection' = [selection EXCEPT ![el] =
                     setSelectionRange(
                       JsAdd(popup.startIndex, Num(Len(correction))), newValue)]
           ELSE UNCHANGED <<value, timeout, unchecked, selection>>
        /\ callArgs' = [NoCall EXCEPT !.fn = "onCorrect", !.el = popup.owner,
                          !.text = correction,
                          !.data = <<popup.startIndex, popup.endIndex>>]
        /\ callResult' = [NoResult EXCEPT !.done = popup.found]
  /\ LET closed == closeCorrectionPopup(popup, doc)
     IN popup' = closed.popup /\ doc' = closed.doc
  /\ calledIn' = Dom
  /\ lastStep' = Step("correct", popup.owner)
  /\ UNCHANGED <<variant, scroll, config, activeInputs, body, marks, dataset,
                 requests, issued, arrived>>

\* onIgnore (src/spellchecker.js 73-76, 210-212)
Ignore ==
  /\ popup.open
  /\ Len(popup.suggestions) > 0
  /\ LET closed == closeCorrectionPopup(popup, doc)
     IN popup' = closed.popup /\ doc' = closed.doc
  /\ calledIn' = Dom
  /\ lastStep' = Step("ignore", popup.owner)
  /\ callArgs' = [NoCall EXCEPT !.fn = "onIgnore", !.el = popup.owner]
  /\ UNCHANGED <<variant, scroll, config, selection, domVars, timeout, requests,
                 issued, arrived, unchecked, callResult>>

\* one element of the page is edited and corrected in a behaviour
OnlyEdited(el) ==
  \A other \in PageEl \ {el} :
    value[other] = <<>> /\ activeInputs[other].overlay = 0

\* the response handler's highlightMistakes(inputElement, mistakes): of an
\* attached element, whose input events handleInputChange listens to
CorrectHighlight(el, ms) ==
  /\ activeInputs[el].has
  /\ OnlyEdited(el)
  /\ OpsHighlight(el, ms)

\* the user types the text into the element
CorrectSetValue(el) ==
  /\ OnlyEdited(el)
  /\ OpsSetValue(el)

NextCorrect ==
  \/ \E el \in PageEl : OpsAttach(el)
  \/ \E el \in PageEl : CorrectSetValue(el)
  \/ \E el \in PageEl : \E ms \in CorrectLists : CorrectHighlight(el, ms)
  \/ \E el \in PageEl : \E k \in 1..MaxMistakes : ClickMarker(el, k)
  \/ \E i \in 1..MaxSuggestions : Correct(i)
  \/ Ignore
  \/ CloseButton
  \/ OutsideClick
  \/ RegistrationTimerFires

SpecCorrect == InitCorrect /\ [][NextCorrect]_vars

\* v[0, s) and v[e, ...)
Upto(v, s) == SubSeq(v, 1, Min(s, Len(v)))
From(v, e) == SubSeq(v, Min(e, Len(v)) + 1, Len(v))

\* C15 as stated: applying a correction c to a marker with offsets [s, e)
\* on an element with value v sets the value to v[0,s) + c + v[e,...),
\* dispatches the input event that starts a debounce wait for the element,
\* puts the caret at s + length(c) and closes the popup (of offsets that lie
\* within v); Ignore closes the popup and changes neither the value nor the
\* overlay.
C15_CorrectionApplied ==
  /\ lastStep.kind = "correct"
       /\ callArgs.data[2].n <= Len(calledIn.value[lastStep.el]) =>
       LET el == lastStep.el
           v == calledIn.value[el]
           c == callArgs.text
           s == callArgs.data[1].n
           e == callArgs.data[2].n
       IN /\ value[el] = Upto(v, s) \o c \o From(v, e)
          /\ timeout.set /\ timeout.target = el
          /\ selection[el] = s + Len(c)
          /\ ~popup.open
  /\ lastStep.kind = "ignore" =>
       /\ ~popup.open
       /\ value = calledIn.value
       /\ body = calledIn.body /\ activeInputs = calledIn.activeInputs

\* the same, of the corrections whose marker finds its element
C15_HoldsWhenElementFound ==
  (lastStep.kind = "correct" => callResult.done) => C15_CorrectionApplied

\* a correction of a marker whose data-input-id no longer finds an element
C15_ElementNotFound ==
  lastStep.kind = "correct" /\ ~callResult.done

\* the markers the overlay of el shows in D that carry the offsets
\* [start, end), and the text a marker displays
MarkersAt(D, el, start, end) ==
  IF D.activeInputs[el].has /\ D.activeInputs[el].overlay # 0
  THEN LET overlay == D.body[D.activeInputs[el].overlay]
       IN {[text |-> SubSeq(overlay.text, overlay.spans[k].from + 1,
                            overlay.spans[k].to)] :
             k \in {j \in DOMAIN overlay.spans :
                      /\ overlay.spans[j].attrs.start = start
                      /\ overlay.spans[j].attrs.end = end}}
  ELSE {}

\* the text onCorrect has replaced: [startIndex, endIndex) of the value
Replaced ==
  substring(calledIn.value[lastStep.el], callArgs.data[1], callArgs.data[2])

\* C25 as stated: whenever onCorrect is applied for a marker, the text it
\* replaces in the element's value is the mistake text the marker was
\* rendered with (a marker rendered in range, its text as long as its
\* offsets say), also when the value has changed since the rendering.
C25_ReplacesHighlightedText ==
  (lastStep.kind = "correct" /\ callResult.done) =>
    \A marker \in MarkersAt(calledIn, lastStep.el,
                             callArgs.data[1], callArgs.data[2]) :
      Len(marker.text) = callArgs.data[2].n - callArgs.data[1].n
        => Replaced = marker.text

\* the same, of the corrections applied while the overlay shows the value
\* the element has
C25_HoldsOfUnchangedValue ==
  (lastStep.kind = "correct"
     => /\ calledIn.activeInputs[lastStep.el].overlay # 0
        /\ calledIn.body[calledIn.activeInputs[lastStep.el].overlay].text
             = calledIn.value[lastStep.el])
  => C25_ReplacesHighlightedText

\* a correction was applied to an element whose overlay shows its value
C25_UnchangedValueReached ==
  /\ lastStep.kind = "correct" /\ callResult.done
  /\ calledIn.activeInputs[lastStep.el].overlay # 0
  /\ calledIn.body[calledIn.activeInputs[lastStep.el].overlay].text
       = calledIn.value[lastStep.el]
  /\ Len(Replaced) = 1

\* C26: the document holds at most one popup node, and holds one exactly
\* when window.currentCorrectionPopup references it; a popup opened while
\* another is open replaces it; after a suggestion, Ignore, the close button
\* or an outside click the reference is null and no popup node remains.
C26_AtMostOnePopup ==
  /\ doc.popups <= 1
  /\ popup.open <=> doc.popups = 1
  /\ lastStep.kind \in {"correct", "ignore", "close", "outside"} =>
       ~popup.open /\ doc.popups = 0

\* a marker was clicked while a popup was open, and one popup is shown
C26_Witness ==
  /\ lastStep.kind = "click"
  /\ popup.open /\ popup.replaced
  /\ doc.popups = 1

\* C27 as stated: once the registration timer of every opened popup has
\* fired, handleOutsideClick is registered on the document if and only if a
\* popup is open.
C27_ListenerIffPopup ==
  doc.timers = 0 => (doc.listener <=> popup.open)

\* one half of it: once the timers have fired, an open popup has its
\* listener
C27_HoldsOfOpenPopup ==
  (doc.timers = 0 /\ popup.open) => doc.listener

\* a popup is open, its timer has fired and its listener is registered
C27_OpenPopupReached ==
  doc.timers = 0 /\ popup.open /\ doc.listener /\ popup.replaced

(***************************************************************************)
(* SpecConfig: SpellChecker.configure(newConfig) is called between the     *)
(* edits and the check cycles of the input e1.                             *)
(***************************************************************************)
NoFields == [k \in {} |-> FALSE]

Field(present, key, val) == IF present THEN key :> val ELSE NoFields

\* Object.assign(target, source)
ObjectAssign(target, source) ==
  [k \in DOMAIN target \cup DOMAIN source |->
     IF k \in DOMAIN source THEN source[k] ELSE target[k]]

\* delete obj[key]
Delete(obj, key) == [k \in DOMAIN obj \ {key} |-> obj[k]]

\* SpellChecker.configure (src/spellchecker.js 942-956, src/unnamed/part_001
\* 325-327)
configure(v, cfg, newConfig) ==
  IF v = "basic" THEN ObjectAssign(cfg, newConfig)
  ELSE LET hasAuth == "auth" \in DOMAIN newConfig
           auth == IF hasAuth
                   THEN [cfg EXCEPT !.auth = ObjectAssign(@, newConfig.auth)]
                   ELSE cfg
           noAuth == IF hasAuth THEN Delete(newConfig, "auth") ELSE newConfig
           hasCss == "cssOverrides" \in DOMAIN noAuth
           css == IF hasCss
                  THEN [auth EXCEPT
                          !.cssOverrides = ObjectAssign(@, noAuth.cssOverrides)]
                  ELSE auth
           rest == IF hasCss THEN Delete(noAuth, "cssOverrides") ELSE noAuth
       IN ObjectAssign(css, rest)

\* the patches of a deployment: any of another endpoint, another debounce
\* interval and, of the groups the config has, some of their sub-keys
PatchEndpoint == "https://api.example.org/check"
PatchDebounceMs == 1000
PatchStyle == "color: red;"

PatchesOf(authKeys, cssKeys) ==
  {Field(url, "apiEndpoint", PatchEndpoint)
     @@ Field(ms, "debounceMs", PatchDebounceMs)
     @@ Field(au # {}, "auth", [k \in au |-> FALSE])
     @@ Field(cs # {}, "cssOverrides", [k \in cs |-> PatchStyle]) :
   url \in BOOLEAN, ms \in BOOLEAN,
   au \in SUBSET authKeys, cs \in SUBSET cssKeys}

FullPatches ==
  PatchesOf(DOMAIN DefaultConfig("full").auth,
            DOMAIN DefaultConfig("full").cssOverrides)
BasicPatches == PatchesOf({}, {})

Patches(v) == IF v = "full" THEN FullPatches ELSE BasicPatches

Configure(newConfig) ==
  /\ config' = configure(variant, config, newConfig)
  /\ lastStep' = Step("configure", "e1")
  /\ UNCHANGED <<variant, doc, scroll, popup, selection, calledIn, domVars, timeout,
                 requests, issued, arrived, unchecked, callArgs, callResult>>

NextConfig ==
  \/ \E p \in Patches(variant) : Configure(p)
  \/ \E t \in EditTexts : Edit("e1", t)
  \/ TimerFires
  \/ \E r \in requests : AuthResolves(r)
  \/ \E r \in requests : FetchRejects(r)

SpecConfig == Init /\ [][NextConfig]_vars

\* a merge patch: the keys the patch names take its values, a named group
\* only in the sub-keys the patch names, everything else stays
Groups == {"auth", "cssOverrides"}

MergePatch(cfg, patch) ==
  [k \in DOMAIN cfg \cup DOMAIN patch |->
     IF k \notin DOMAIN patch THEN cfg[k]
     ELSE IF k \in Groups /\ k \in DOMAIN cfg
          THEN [j \in DOMAIN cfg[k] \cup DOMAIN patch[k] |->
                  IF j \in DOMAIN patch[k] THEN patch[k][j] ELSE cfg[k][j]]
          ELSE patch[k]]

ConfigureMerges ==
  \A p \in Patches(variant) : Configure(p) => config' = MergePatch(config, p)

EditWaitsDebounceMs ==
  (\E t \in EditTexts : Edit("e1", t)) => timeout'.wait = config.debounceMs

FetchUsesApiEndpoint ==
  \A r \in requests :
    AuthResolves(r) =>
      \E sent \in requests' :
        sent.seq = r.seq /\ sent.stage = "fetch" /\ sent.url = config.apiEndpoint

\* C18 as stated: configure(patch) is a merge patch of the configuration
\* (unnamed keys keep their values, a patch of auth or cssOverrides changes
\* only the sub-keys it names), and the edits and cycles after it use the
\* patched values: the debounced edit waits config.debounceMs, the request
\* goes to config.apiEndpoint.
C18_ConfigureTakesEffect ==
  [][ConfigureMerges /\ EditWaitsDebounceMs /\ FetchUsesApiEndpoint]_vars

\* the merge alone: in every state, configure of any patch gives the merge
C18_HoldsOfMerge ==
  \A p \in Patches(variant) :
    configure(variant, config, p) = MergePatch(config, p)

\* the endpoint alone: the request goes to the config.apiEndpoint of the time
C18_HoldsOfEndpoint == [][FetchUsesApiEndpoint]_vars

(***************************************************************************)
(* SpecOrder: the body of a response with valid issues, some of which      *)
(* start at the same offset, is handled for the input e1: normalized and   *)
(* rendered.                                                               *)
(***************************************************************************)
\* the spans of the issues of the response: two of them start at 0
OrderSpans == {<<0, 1>>, <<0, 2>>, <<1, 2>>}

OrderIssues == {Issue(TRUE, Num(z[1]), Num(z[2] - z[1])) : z \in OrderSpans}
OrderEntries == {Entry(Num(z[1]), Num(z[2]), Undefined) : z \in OrderSpans}

OrderArgs(d) ==
  [NoCall EXCEPT !.fn = "response", !.el = "e1", !.text = NormText, !.data = d]

InitOrder ==
  /\ \E v \in {"full", "basic"} : WidgetInit(v)
  /\ \/ callArgs = OrderArgs(NullPayload)
     \/ \E z \in Sizes :
          \E sp \in ListsOf(OrderIssues, z[1]),
             gr \in ListsOf(OrderIssues, z[2]),
             fl \in ListsOf(OrderEntries, z[3]) :
            callArgs = OrderArgs(Payload(sp, gr, fl))
  /\ callResult = NoResult

\* the user has typed the text; const data = await response.json() and what
\* checkSpelling does with it
OrderRespond ==
  /\ ~callResult.done
  /\ LET typed == [Dom EXCEPT !.value["e1"] = callArgs.text]
         res == applyResponse(variant, typed, "e1", callArgs.data)
     IN /\ SetDom(res.D)
        /\ callResult' = [done |-> TRUE, threw |-> res.threw,
                          mistakes |-> res.mistakes]
  /\ lastStep' = Step("response", "e1")
  /\ UNCHANGED <<variant, doc, scroll, popup, config, selection, calledIn, timeout,
                 requests, issued, arrived, unchecked, callArgs>>

NextOrder == OrderRespond

SpecOrder == InitOrder /\ [][NextOrder]_vars

\* the offsets of the issues of the payload the variant reads, in payload
\* order: spelling_issues, grammar_issues, mistakes
SpanOfIssue(issue) ==
  <<issue.location.offset.n, issue.location.offset.n + issue.location.length.n>>
SpanOfEntry(m) == <<m.startIndex.n, m.endIndex.n>>

SpansOf(items, Op(_)) == [k \in 1..Len(items) |-> Op(items[k])]

PayloadSpans ==
  IF variant = "full"
  THEN SpansOf(SpellingRead, SpanOfIssue) \o SpansOf(GrammarRead, SpanOfIssue)
         \o SpansOf(FlatRead, SpanOfEntry)
  ELSE SpansOf(FlatRead, SpanOfEntry)

\* the offsets of the markers in the order the renderer emits them: one
\* marker per entry of the sorted list, which the registry keeps
EmittedSpans ==
  IF HasOverlay("e1")
  THEN SpansOf(activeInputs["e1"].mistakes, SpanOfEntry)
  ELSE <<>>

StartingAt(spans, start) == SelectSeq(spans, LAMBDA z : z[1] = start)

\* C21: the mistakes that start at the same offset are normalized and
\* emitted as markers in the order they have in the payload.
C21_TiesKeepSourceOrder ==
  (callResult.done /\ ~callResult.threw) =>
    /\ Len(callResult.mistakes) = Len(PayloadSpans)
    /\ \A start \in 0..Len(NormText) :
         /\ StartingAt(SpansOf(callResult.mistakes, SpanOfEntry), start)
              = StartingAt(PayloadSpans, start)
         /\ StartingAt(EmittedSpans, start) = StartingAt(PayloadSpans, start)
    /\ (variant = "full" /\ HasOverlay("e1")) =>
         \A k \in 1..Len(EmittedSpans) :
           /\ k \in DOMAIN OverlayOf("e1").spans
           /\ OverlayOf("e1").spans[k].attrs.start = Num(EmittedSpans[k][1])
           /\ OverlayOf("e1").spans[k].attrs.end = Num(EmittedSpans[k][2])

\* a response whose issue at 1 comes first and whose two issues at 0 come
\* with the longer one first was rendered
C21_Witness ==
  /\ callResult.done /\ ~callResult.threw
  /\ \E a, b \in DOMAIN PayloadSpans :
       a < b /\ PayloadSpans[a] = <<0, 2>> /\ PayloadSpans[b] = <<0, 1>>
  /\ EmittedSpans[1] = <<0, 2>>
  /\ EmittedSpans[2] = <<0, 1>>

\* the lists of a payload, whichever variant reads them
ItemsOf(list) == IF callArgs.data.isNull \/ ~list.isArray THEN <<>> ELSE list.items
SpellingSent == ItemsOf(callArgs.data.text.spelling_issues)
GrammarSent == ItemsOf(callArgs.data.text.grammar_issues)
FlatSent == ItemsOf(callArgs.data.mistakes)

Typed(spans, type) == [k \in 1..Len(spans) |-> <<spans[k], type>>]

\* C22 as stated: for a payload of valid issues, the check cycle gets one
\* mistake per issue of spelling_issues (type spelling) and of grammar_issues
\* (type grammar), with startIndex = offset and endIndex = offset + length,
\* and one per entry of mistakes, those of both shapes if both are there;
\* for a payload of neither shape it gets the empty list, and no exception.
C22_BothShapesAccepted ==
  callResult.done =>
    /\ ~callResult.threw
    /\ LET ms == callResult.mistakes
           nested == Typed(SpansOf(SpellingSent, SpanOfIssue), Str("spelling"))
                       \o Typed(SpansOf(GrammarSent, SpanOfIssue), Str("grammar"))
           flat == SpansOf(FlatSent, SpanOfEntry)
       IN /\ Len(ms) = Len(nested) + Len(flat)
          /\ \A k \in 1..Len(nested) :
               <<SpanOfEntry(ms[k]), ms[k].type>> = nested[k]
          /\ \A k \in 1..Len(flat) :
               SpanOfEntry(ms[Len(nested) + k]) = flat[k]

\* the same, of the variant that calls parseApiResponse (src/spellchecker.js)
C22_HoldsOfFullVariant == variant = "full" => C22_BothShapesAccepted

\* a payload of each kind has been handled by the full variant
C22_FullVariantReached ==
  /\ variant = "full" /\ callResult.done
  /\ Len(SpellingSent) = 1 /\ Len(FlatSent) = 1
  /\ Len(callResult.mistakes) = 2

====
